---- MODULE Spec2Model ----
(***************************************************************************)
(* Model of codigo_corregido.py: a Streamlit script that loads a customer  *)
(* CSV once (st.cache_data), derives Edad / GastoTotal / Genero /          *)
(* RangoEdad, filters it by three multiselect widgets and renders          *)
(* metrics, charts and insights.  One run of the script is one step.       *)
(***************************************************************************)
EXTENDS Integers, Sequences, FiniteSets, TLC

VARIABLES
    csv,        \* the file marketing_campaign.csv as it sits on disk
    clock,      \* the year the system clock shows
    observed,   \* pandas build: default of groupby(observed=...) on a categorical
    cache,      \* st.cache_data store of cargar_datos: set of [path, df]
    nLoads,     \* how often the body of cargar_datos ran (file read + clock read)
    widgets,    \* session state of the multiselects: key -> selected set
    run         \* what the last run of the script produced

vars == <<csv, clock, observed, cache, nLoads, widgets, run>>

-----------------------------------------------------------------------------
(* Bounds of the model                                                     *)

MaxRows == 2        \* data rows in the file
MaxTicks == 1       \* new-year rollovers of the clock during the process

-----------------------------------------------------------------------------
(* Values                                                                  *)

\* a missing label (pandas NaN in an object / categorical column)
NaN == "NaN"

\* a missing number is the empty cell <<>>, a number n is the cell <<n>>
Missing == <<>>
Num(n) == <<n>>

\* year shown by the clock when the process starts (pd.Timestamp.now().year)
StartYear == 2024

PATH == "marketing_campaign.csv"

\* lexicographic order of the labels, as Python compares str
LabelOrder == <<"Hombre", "Married", "Mujer", "Single">>

Rank(l) == CHOOSE i \in 1..Len(LabelOrder) : LabelOrder[i] = l

Range(s) == {s[i] : i \in 1..Len(s)}

RECURSIVE SumSeq(_)
SumSeq(s) == IF s = <<>> THEN 0 ELSE s[1] + SumSeq(Tail(s))

RECURSIVE SortInts(_)
\* ascending sort of a sequence of integers
SortInts(s) ==
    IF s = <<>> THEN <<>>
    ELSE LET i == CHOOSE k \in 1..Len(s) : \A j \in 1..Len(s) : s[k] <= s[j]
         IN  <<s[i]>> \o SortInts(SubSeq(s, 1, i - 1) \o SubSeq(s, i + 1, Len(s)))

Column(d, c) == [i \in 1..Len(d) |-> d[i][c]]

-----------------------------------------------------------------------------
(* The input file                                                          *)

Raw(y, m, g, w) == [Year_Birth |-> y, Marital_Status |-> m, Gender |-> g, Mnt |-> w]

Spend(a, b) == <<a, b, Num(0), Num(0), Num(0), Num(0)>>

NoSpend == <<Missing, Missing, Missing, Missing, Missing, Missing>>

\* the rows a file is made of: ages 99/100, 10, 9/10, 34, negative and 100,
\* every marital status and gender spelling, spends present and missing
RowPool ==
    { Raw(1925, "Single",  "M", Spend(Num(100), Num(0))),
      Raw(2014, "Married", "F", Spend(Num(0), Num(200))),
      Raw(2015, "Single",  "F", NoSpend),
      Raw(1990, "Married", "M", Spend(Num(100), Missing)),
      Raw(1990, "Single",  "F", Spend(Num(0), Num(200))),
      Raw(2030, NaN,       "X", Spend(Missing, Num(30))),
      Raw(1924, "Married", NaN, Spend(Num(10), Num(5))) }

RowSeqs == UNION {[1..n -> RowPool] : n \in 0..MaxRows}

\* a file without a Gender column carries no gender cell in its rows
DropGender(rows) == [i \in 1..Len(rows) |-> [rows[i] EXCEPT !.Gender = NaN]]

Files ==
    {[exists |-> TRUE, hasGender |-> TRUE, rows |-> r] : r \in RowSeqs}
    \cup {[exists |-> TRUE, hasGender |-> FALSE, rows |-> DropGender(r)] : r \in RowSeqs}
    \cup {[exists |-> FALSE, hasGender |-> FALSE, rows |-> <<>>]}

-----------------------------------------------------------------------------
(* cargar_datos                                                            *)

\* df[cols].fillna(0).sum(axis=1) for one row
fillna(c) == IF c = Missing THEN 0 ELSE c[1]

GastoTotal(w) == SumSeq([i \in 1..Len(w) |-> fillna(w[i])])

\* df["Gender"].map({"M": "Hombre", "F": "Mujer"}): no entry gives NaN
MapGender(g) ==
    CASE g = "M" -> "Hombre"
      [] g = "F" -> "Mujer"
      [] OTHER   -> NaN

\* np.random.seed(42); np.random.choice(["Hombre","Mujer"], size=n):
\* the first draws of the seeded stream, as indices into the two labels
Seed42 == <<0, 1, 0, 0, 0, 1, 0, 0, 0, 1>>

RandomChoice(i) == IF Seed42[i] = 0 THEN "Hombre" ELSE "Mujer"

\* bins = list(range(10, 101, 10))
bins == [k \in 1..10 |-> 10 * k]

\* labels = [f"{i}-{i+9}" for i in bins[:-1]]
labels == [k \in 1..(Len(bins) - 1) |-> ToString(bins[k]) \o "-" \o ToString(bins[k] + 9)]

\* pd.cut with right=True, the default: intervals (10,20], ..., (90,100]
Cut_right_closed(x) ==
    IF \E k \in 1..(Len(bins) - 1) : bins[k] < x /\ x <= bins[k + 1]
    THEN labels[CHOOSE k \in 1..(Len(bins) - 1) : bins[k] < x /\ x <= bins[k + 1]]
    ELSE NaN

\* pd.cut(x, bins=bins, labels=labels, right=False)
Cut(x) ==
    IF \E k \in 1..(Len(bins) - 1) : bins[k] <= x /\ x < bins[k + 1]
    THEN labels[CHOOSE k \in 1..(Len(bins) - 1) : bins[k] <= x /\ x < bins[k + 1]]
    ELSE NaN

Genero(hasGender, raw, i) == IF hasGender THEN MapGender(raw.Gender) ELSE RandomChoice(i)

\* the body of cargar_datos on the rows read, with the clock at current_year
Derive(file, current_year) ==
    [i \in 1..Len(file.rows) |->
        LET raw == file.rows[i]
            edad == current_year - raw.Year_Birth
        IN  [Year_Birth  |-> raw.Year_Birth,
             Edad        |-> edad,
             GastoTotal  |-> GastoTotal(raw.Mnt),
             EstadoCivil |-> raw.Marital_Status,
             Genero      |-> Genero(file.hasGender, raw, i),
             RangoEdad   |-> Cut(edad)]]

CacheHit(store, path) == \E e \in store : e.path = path

CacheGet(store, path) == (CHOOSE e \in store : e.path = path).df

\* cargar_datos without @st.cache_data: every call reads file and clock
cargar_datos_uncached(store, file, path, year) ==
    IF ~file.exists
    THEN [hit |-> FALSE, raised |-> TRUE, df |-> <<>>]
    ELSE [hit |-> FALSE, raised |-> FALSE, df |-> Derive(file, year)]

\* @st.cache_data cargar_datos(path): [hit, raised, df] for the call
cargar_datos(store, file, path, year) ==
    IF CacheHit(store, path)
    THEN [hit |-> TRUE, raised |-> FALSE, df |-> CacheGet(store, path)]
    ELSE IF ~file.exists
    THEN [hit |-> FALSE, raised |-> TRUE, df |-> <<>>]
    ELSE [hit |-> FALSE, raised |-> FALSE, df |-> Derive(file, year)]

-----------------------------------------------------------------------------
(* Sidebar and filter                                                      *)

\* df[c].dropna().unique(), as the set of options of a multiselect
Unique(d, c) == Range(Column(d, c)) \ {NaN}

\* st.sidebar.multiselect(key, options, default): the stored selection of
\* the session, or the default while the widget was never touched
multiselect(state, key, default) == IF key \in DOMAIN state THEN state[key] ELSE default

\* an empty selection taken as "no filter"
isin_or_unfiltered(x, values) == values = {} \/ x \in values

\* Series.isin(values)
isin(x, values) == x \in values

\* the three masks joined with | instead of &
df_filtrado_any(d, filtros_estado, filtros_edad, filtros_genero) ==
    LET Keep(r) == \/ r.EstadoCivil \in filtros_estado
                   \/ r.RangoEdad \in filtros_edad
                   \/ r.Genero \in filtros_genero
    IN  SelectSeq(d, Keep)

\* df[ isin(filtros_estado) & isin(filtros_edad) & isin(filtros_genero) ]
df_filtrado(d, filtros_estado, filtros_edad, filtros_genero) ==
    LET Keep(r) == /\ isin(r.EstadoCivil, filtros_estado)
                   /\ isin(r.RangoEdad, filtros_edad)
                   /\ isin(r.Genero, filtros_genero)
    IN  SelectSeq(d, Keep)

-----------------------------------------------------------------------------
(* Aggregates                                                              *)

\* a mean is kept exact as <<sum, n>>; n = 0 is the NaN of an empty mean
Mean(s) == <<SumSeq(s), Len(s)>>

IsNaNMean(m) == m[2] = 0

\* m1 > m2 for two means that are not NaN
MeanGreater(m1, m2) == m1[1] * m2[2] > m2[1] * m1[2]

Count(col, v) == Cardinality({i \in 1..Len(col) : col[i] = v})

\* the most frequent value that comes first in row order
Mode_first_seen(col) ==
    LET vals == Range(col) \ {NaN}
        best == {v \in vals : \A w \in vals : Count(col, w) <= Count(col, v)}
        First(v) == CHOOSE i \in 1..Len(col) : col[i] = v /\ \A j \in 1..(i - 1) : col[j] # v
    IN  CHOOSE v \in best : \A w \in best : First(v) <= First(w)

\* Series.mode()[0]: the most frequent values (NaN dropped) come back
\* sorted, [0] is the smallest of them
Mode(col) ==
    LET vals == Range(col) \ {NaN}
        best == {v \in vals : \A w \in vals : Count(col, w) <= Count(col, v)}
    IN  CHOOSE v \in best : \A w \in best : Rank(v) <= Rank(w)

\* Series.mode() of the column has a first element
HasMode(col) == Range(col) \ {NaN} # {}

\* int(Series.median())
Median(col) ==
    LET s == SortInts(col)
        n == Len(s)
        twice == IF n % 2 = 1 THEN 2 * s[(n + 1) \div 2] ELSE s[n \div 2] + s[n \div 2 + 1]
    IN  IF twice >= 0 THEN twice \div 2 ELSE -((-twice) \div 2)

\* df_filtrado.groupby("RangoEdad")["GastoTotal"].mean().reset_index():
\* RangoEdad is categorical, groups come in category order; with
\* observed=False every category is a group, an empty one with mean NaN
GroupMean(sub, obs) ==
    LET Of(l) == SelectSeq(sub, LAMBDA r : r.RangoEdad = l)
        Entry(k) == [RangoEdad |-> labels[k], GastoTotal |-> Mean(Column(Of(labels[k]), "GastoTotal"))]
        all == [k \in 1..Len(labels) |-> Entry(k)]
    IN  IF obs THEN SelectSeq(all, LAMBDA e : ~IsNaNMean(e.GastoTotal)) ELSE all

\* gasto_por_rango.loc[gasto_por_rango["GastoTotal"].idxmax()]: NaN skipped,
\* the first of the largest
IdxMax(g) ==
    LET ok == {i \in 1..Len(g) : ~IsNaNMean(g[i].GastoTotal)}
    IN  CHOOSE i \in ok :
            /\ \A j \in ok : ~MeanGreater(g[j].GastoTotal, g[i].GastoTotal)
            /\ \A j \in ok : j < i => MeanGreater(g[i].GastoTotal, g[j].GastoTotal)

\* groupby(["Edad","Genero"]).size().unstack(fill_value=0), both gender
\* columns ensured, the Hombre column negated
Pyramid(sub) ==
    [a \in Range(Column(sub, "Edad")) |->
        LET at == SelectSeq(sub, LAMBDA r : r.Edad = a)
        IN  [Hombre |-> -Count(Column(at, "Genero"), "Hombre"),
             Mujer  |-> Count(Column(at, "Genero"), "Mujer")]]

\* df_filtrado["Genero"].value_counts()
value_counts(col) == [v \in Range(col) \ {NaN} |-> Count(col, v)]

-----------------------------------------------------------------------------
(* One run of the script, top to bottom                                    *)

NoRun ==
    [status |-> "none", error |-> "", at |-> "", hit |-> FALSE, df |-> <<>>,
     estados_civiles |-> {}, rangos_edades |-> {}, generos |-> {},
     filtros_estado |-> {}, filtros_edad |-> {}, filtros_genero |-> {},
     df_filtrado |-> <<>>, clientes |-> 0, gasto_prom |-> <<0, 0>>,
     edad_prom |-> <<0, 0>>, genero_dom |-> "", count_dom |-> 0,
     rendered |-> <<>>, gasto_por_rango |-> <<>>, pop |-> <<>>,
     genero_counts |-> <<>>, insights |-> <<>>]

\* an exception leaves the run where it was raised
Raise(r, error, at) == [r EXCEPT !.status = "raised", !.error = error, !.at = at]

\* lines 110-156: charts and insights of a subset that is not empty
Charts(r, obs) ==
    LET sub   == r.df_filtrado
        gpr   == GroupMean(sub, obs)
        c     == [r EXCEPT !.gasto_por_rango = gpr,
                           !.pop = Pyramid(sub),
                           !.genero_counts = value_counts(Column(sub, "Genero")),
                           !.rendered = @ \o <<"fig1", "fig2", "fig3", "fig4", "fig5">>]
    IN  IF \A i \in 1..Len(gpr) : IsNaNMean(gpr[i].GastoTotal)
        THEN \* idxmax finds no value
             Raise(c, "ValueError", "insights")
        ELSE IF ~HasMode(Column(sub, "EstadoCivil"))
        THEN \* mode() is empty, [0] is no key of it
             Raise(c, "KeyError", "insights")
        ELSE LET top == gpr[IdxMax(gpr)]
             IN  [c EXCEPT !.status = "ok",
                           !.insights = <<Median(Column(sub, "Edad")),
                                          <<top.RangoEdad, top.GastoTotal>>,
                                          Mode(Column(sub, "EstadoCivil"))>>,
                           !.rendered = @ \o <<"insights">>]

\* lines 83-94: col1, col2, col3 on a dataset that is not empty
Cols123(r) ==
    LET sub == r.df_filtrado
    IN  [r EXCEPT !.clientes = Len(sub),
                  !.gasto_prom = Mean(Column(sub, "GastoTotal")),
                  !.edad_prom = Mean(Column(sub, "Edad")),
                  !.rendered = <<"col1", "col2", "col3">>]

\* lines 95-101: col4, the dominant gender or "N/A"
Col4(r) ==
    LET gen == Column(r.df_filtrado, "Genero")
    IN  IF r.df_filtrado = <<>>
        THEN [r EXCEPT !.genero_dom = "N/A", !.rendered = @ \o <<"col4">>]
        ELSE [r EXCEPT !.genero_dom = Mode(gen),
                       !.count_dom = Count(gen, Mode(gen)),
                       !.rendered = @ \o <<"col4">>]

\* the metrics without st.stop(): an empty subset goes on to the charts,
\* the insights stay behind their own emptiness test
Metrics_no_stop(r, obs) ==
    IF Len(r.df) = 0
    THEN Raise(r, "ZeroDivisionError", "col1")
    ELSE IF r.df_filtrado # <<>> /\ ~HasMode(Column(r.df_filtrado, "Genero"))
    THEN Raise(Cols123(r), "KeyError", "col4")
    ELSE LET m == Col4(Cols123(r))
         IN  IF r.df_filtrado = <<>>
             THEN [m EXCEPT !.status = "ok",
                            !.gasto_por_rango = GroupMean(r.df_filtrado, obs),
                            !.rendered = @ \o <<"error", "fig1", "fig2", "fig3", "fig4", "fig5">>]
             ELSE Charts(m, obs)

\* lines 81-108: the four metrics, then the stop on an empty subset
Metrics(r, obs) ==
    IF Len(r.df) = 0
    THEN \* len(df_filtrado)/len(df) divides by zero inside col1
         Raise(r, "ZeroDivisionError", "col1")
    ELSE IF r.df_filtrado # <<>> /\ ~HasMode(Column(r.df_filtrado, "Genero"))
    THEN \* mode() is empty, [0] is no key of it
         Raise(Cols123(r), "KeyError", "col4")
    ELSE LET m == Col4(Cols123(r))
         IN  IF r.df_filtrado = <<>>
             THEN [m EXCEPT !.status = "stopped", !.rendered = @ \o <<"error">>]
             ELSE Charts(m, obs)

\* lines 57-76: load, sidebar, filter
Script(store, file, year, state, obs) ==
    LET ld == cargar_datos(store, file, PATH, year)
    IN  IF ld.raised
        THEN [NoRun EXCEPT !.status = "raised", !.error = "FileNotFoundError", !.at = "cargar_datos"]
        ELSE LET d  == ld.df
                 ec == Unique(d, "EstadoCivil")
                 re == Unique(d, "RangoEdad")
                 ge == Unique(d, "Genero")
                 fe == multiselect(state, "estado", ec)
                 fd == multiselect(state, "edad", re)
                 fg == multiselect(state, "genero", ge)
             IN  Metrics([NoRun EXCEPT !.hit = ld.hit, !.df = d,
                                       !.estados_civiles = ec, !.rangos_edades = re, !.generos = ge,
                                       !.filtros_estado = fe, !.filtros_edad = fd, !.filtros_genero = fg,
                                       !.df_filtrado = df_filtrado(d, fe, fd, fg)], obs)

\* st.cache_data after the call: a computed value is stored under its path
CacheAfter(store, file, year) ==
    LET ld == cargar_datos(store, file, PATH, year)
    IN  IF ld.hit \/ ld.raised THEN store ELSE store \cup {[path |-> PATH, df |-> ld.df]}

LoadsAfter(store, file, year, n) == IF cargar_datos(store, file, PATH, year).hit THEN n ELSE n + 1

\* the widgets the run displayed keep their value in the session
WidgetsAfter(r) ==
    IF r.at = "cargar_datos" THEN <<>>
    ELSE [k \in {"estado", "edad", "genero"} |->
            CASE k = "estado" -> r.filtros_estado
              [] k = "edad"   -> r.filtros_edad
              [] OTHER        -> r.filtros_genero]

-----------------------------------------------------------------------------
(* The process                                                             *)

Init ==
    /\ csv \in Files
    /\ clock = StartYear
    /\ observed \in BOOLEAN
    /\ cache = {}
    /\ nLoads = 0
    /\ widgets = <<>>
    /\ run = NoRun

\* the script runs with the session's widget state `state`
Rerun(state) ==
    /\ run' = Script(cache, csv, clock, state, observed)
    /\ cache' = CacheAfter(cache, csv, clock)
    /\ nLoads' = LoadsAfter(cache, csv, clock, nLoads)
    /\ widgets' = WidgetsAfter(run')
    /\ UNCHANGED <<csv, clock, observed>>

\* the browser opens the page: first run, every widget at its default
Start ==
    /\ run.status = "none"
    /\ Rerun(widgets)

\* the analyst changes the selection of one multiselect, the script reruns
Change(key, options) ==
    /\ run.status # "none"
    /\ key \in DOMAIN widgets
    /\ \E s \in SUBSET options :
          /\ s # widgets[key]
          /\ Rerun([widgets EXCEPT ![key] = s])

ChangeEstado == Change("estado", run.estados_civiles)

ChangeEdad == Change("edad", run.rangos_edades)

ChangeGenero == Change("genero", run.generos)

\* the year turns while the process is up
Tick ==
    /\ clock < StartYear + MaxTicks
    /\ clock' = clock + 1
    /\ UNCHANGED <<csv, observed, cache, nLoads, widgets, run>>

Next == Start \/ ChangeEstado \/ ChangeEdad \/ ChangeGenero \/ Tick

Spec == Init /\ [][Next]_vars

-----------------------------------------------------------------------------
(* Properties                                                              *)

\* the run got past cargar_datos and the sidebar and computed the subset
Filtered == run.status \in {"ok", "stopped"}

Selected(r) ==
    /\ r.EstadoCivil \in run.filtros_estado
    /\ r.RangoEdad \in run.filtros_edad
    /\ r.Genero \in run.filtros_genero

Perms(n) == {p \in [1..n -> 1..n] : \A i, j \in 1..n : p[i] = p[j] => i = j}

Permuted(s, p) == [i \in 1..Len(s) |-> s[p[i]]]

\* C1: with the three selections equal to the option lists derived from the
\* dataset, the filtered subset is the whole dataset, in content and order,
\* records without an age bracket included.
C1_AllOptionsKeepAll ==
    (/\ run.status # "none"
     /\ run.at # "cargar_datos"
     /\ run.filtros_estado = Unique(run.df, "EstadoCivil")
     /\ run.filtros_edad = Unique(run.df, "RangoEdad")
     /\ run.filtros_genero = Unique(run.df, "Genero"))
    => run.df_filtrado = run.df

\* C2: after derivation every record's Genero is "Hombre" or "Mujer", whether
\* the Gender column is mapped or the gender is synthesized.
C2_GeneroIsALabel ==
    \A i \in 1..Len(run.df) : run.df[i].Genero \in {"Hombre", "Mujer"}

\* C3: a record has an age bracket exactly when 10 <= Edad < 100, and the
\* bracket is then "L-H" with L = floor(Edad/10)*10 and H = L+9.
C3_BracketMatchesAge ==
    \A i \in 1..Len(run.df) :
        LET r == run.df[i]
            L == (r.Edad \div 10) * 10
        IN  /\ (r.RangoEdad # NaN) <=> (10 <= r.Edad /\ r.Edad < 100)
            /\ r.RangoEdad # NaN => r.RangoEdad = ToString(L) \o "-" \o ToString(L + 9)

C3_Witness ==
    /\ \E i \in 1..Len(run.df) : run.df[i].Edad = 100 /\ run.df[i].RangoEdad = NaN
    /\ \E i \in 1..Len(run.df) : run.df[i].Edad = 10 /\ run.df[i].RangoEdad = "10-19"

\* C4: the subset holds exactly the records whose marital status, bracket
\* and gender are each in the matching selection, in the dataset's order,
\* and the dataset is the cached one, unchanged.
C4_FilterIsMembership ==
    Filtered =>
        LET d   == run.df
            sub == run.df_filtrado
            idx == {i \in 1..Len(d) : Selected(d[i])}
            Nth(k) == CHOOSE i \in idx : Cardinality({j \in idx : j < i}) = k - 1
        IN  /\ Len(sub) = Cardinality(idx)
            /\ \A k \in 1..Len(sub) : sub[k] = d[Nth(k)]
            /\ d = CacheGet(cache, PATH)

C4_Witness ==
    /\ Filtered
    /\ Len(run.df) >= 2
    /\ Len(run.df_filtrado) = 1
    /\ ~Selected(run.df[1])
    /\ run.filtros_estado # {} /\ run.filtros_edad # {} /\ run.filtros_genero # {}

\* C5: an empty selection in any one of the three filters leaves no record.
C5_EmptySelectionKeepsNothing ==
    (/\ Filtered
     /\ \/ run.filtros_estado = {}
        \/ run.filtros_edad = {}
        \/ run.filtros_genero = {})
    => run.df_filtrado = <<>>

C5_Witness ==
    /\ Filtered
    /\ run.filtros_edad = {}
    /\ run.filtros_estado # {} /\ run.filtros_genero # {}
    /\ \E i \in 1..Len(run.df) :
          run.df[i].EstadoCivil \in run.filtros_estado /\ run.df[i].Genero \in run.filtros_genero

\* C6: on an empty subset of a dataset that is not empty the run raises
\* nothing, shows "N/A" as dominant gender, emits the no-data error and
\* stops before any chart aggregate or insight is computed.
C6_EmptySubsetStops ==
    (run.status # "none" /\ run.at # "cargar_datos" /\ run.df # <<>> /\ run.df_filtrado = <<>>)
    => /\ run.status = "stopped"
       /\ run.error = ""
       /\ run.genero_dom = "N/A"
       /\ run.rendered = <<"col1", "col2", "col3", "col4", "error">>
       /\ run.gasto_por_rango = <<>>
       /\ DOMAIN run.pop = {}
       /\ DOMAIN run.genero_counts = {}
       /\ run.insights = <<>>

C6_Witness ==
    /\ run.status = "stopped"
    /\ run.df # <<>>
    /\ run.genero_dom = "N/A"

\* C7: the mean spend by bracket has one entry for each bracket that occurs
\* in the subset and none for any other, in ascending bracket order, each
\* with the mean of GastoTotal over the records of its bracket.
C7_OneEntryPerPresentBracket ==
    run.status = "ok" =>
        LET g       == run.gasto_por_rango
            sub     == run.df_filtrado
            present == Range(Column(sub, "RangoEdad"))
            Pos(l)  == CHOOSE k \in 1..Len(labels) : labels[k] = l
        IN  /\ {g[i].RangoEdad : i \in 1..Len(g)} = present
            /\ Len(g) = Cardinality(present)
            /\ \A i, j \in 1..Len(g) : i < j => Pos(g[i].RangoEdad) < Pos(g[j].RangoEdad)
            /\ \A i \in 1..Len(g) :
                  LET of == SelectSeq(sub, LAMBDA r : r.RangoEdad = g[i].RangoEdad)
                  IN  g[i].GastoTotal = <<SumSeq(Column(of, "GastoTotal")), Len(of)>>

\* C8: a file that cannot be opened or has no data row makes the run fail
\* inside the loader, not later.
C8_NoRowsFailsInLoader ==
    (run.status # "none" /\ (~csv.exists \/ Len(csv.rows) = 0))
    => (run.status = "raised" /\ run.at = "cargar_datos")

\* C9: the dominant gender is a label of maximal count, shown with that
\* label's count; among equally frequent labels the choice depends only on
\* the labels, not on the order of the rows; the dominant marital status
\* follows the same rule.
C9_ModeIsMaximalAndOrderFree ==
    run.status = "ok" =>
        LET gen == Column(run.df_filtrado, "Genero")
            est == Column(run.df_filtrado, "EstadoCivil")
            n   == Len(run.df_filtrado)
        IN  /\ \A l \in Range(gen) : Count(gen, l) <= Count(gen, run.genero_dom)
            /\ run.count_dom = Count(gen, run.genero_dom)
            /\ run.count_dom >= 1
            /\ \A l \in Range(est) : Count(est, l) <= Count(est, run.insights[3])
            /\ Count(est, run.insights[3]) >= 1
            /\ \A p \in Perms(n) :
                  /\ Mode(Permuted(gen, p)) = run.genero_dom
                  /\ Mode(Permuted(est, p)) = run.insights[3]

C9_Witness ==
    /\ run.status = "ok"
    /\ Len(run.df_filtrado) = 2
    /\ run.df_filtrado[1].Genero = "Mujer"
    /\ run.df_filtrado[2].Genero = "Hombre"
    /\ run.df_filtrado[1].EstadoCivil = "Single"
    /\ run.df_filtrado[2].EstadoCivil = "Married"
    /\ run.genero_dom = "Hombre"
    /\ run.count_dom = 1
    /\ run.insights[3] = "Married"

\* C10: the dataset is derived once per process: later runs neither read
\* the file nor the clock again, every run after the first sees the same
\* records with the same Edad and RangoEdad although the clock moves on,
\* and each run filters that dataset by the selections then current.
C10_DerivedOnce ==
    [][/\ nLoads' <= 1
       /\ cache # {} => (cache' = cache /\ nLoads' = nLoads /\ run'.df = run.df)
       /\ (cache # {} /\ run' # run) => run'.hit
       /\ run'.status \in {"ok", "stopped"} =>
             /\ run'.df = CacheGet(cache', PATH)
             /\ run'.df_filtrado =
                   df_filtrado(run'.df, widgets'["estado"], widgets'["edad"], widgets'["genero"])
      ]_vars

C10_Witness ==
    /\ clock > StartYear
    /\ run.hit
    /\ run.status = "ok"
    /\ nLoads = 1
    /\ run.filtros_edad # Unique(run.df, "RangoEdad")
    /\ \E i \in 1..Len(run.df_filtrado) :
          run.df_filtrado[i].Edad = StartYear - run.df_filtrado[i].Year_Birth

====
